---- MODULE Spec2Model ----
(***************************************************************************)
(* Model of backend/main.py: the ledger store (one CSV file per date, with *)
(* a fixed ten-row head and an optional trailing "TOTAL DEV" row), the     *)
(* amount parser and the monthly aggregation.                              *)
(*                                                                         *)
(* A Python str is modelled as a sequence of tokens.  A token is either    *)
(* one character that some operation of the program looks at (space, CR,   *)
(* LF, comma, double quote, dash, digit, dot, ...) or an indivisible run   *)
(* of other characters ("T1", "TOTAL DEV", "TICKET DEVOLUCION").           *)
(***************************************************************************)
EXTENDS Integers, Sequences, FiniteSets, TLC

\* ------------------------------------------------------------------ str

CR == "\r"
LF == "\n"
SP == " "
COMMA == ","
QUOTE == "\""
DASH == "-"

\* str.isspace() of one token
IsSpace(c) == c \in {SP, CR, LF}

\* str.upper() of one token (the letters of the model's alphabet)
UpperTok(c) ==
  CASE c = "total dev" -> "TOTAL DEV"
    [] c = "Total Dev" -> "TOTAL DEV"
    [] c = "t" -> "T"
    [] c = "x" -> "X"
    [] c = "n" -> "N"
    [] c = "a" -> "A"
    [] OTHER -> c

Upper(s) == [i \in 1..Len(s) |-> UpperTok(s[i])]

RECURSIVE LStrip(_)
LStrip(s) == IF s /= <<>> /\ IsSpace(Head(s)) THEN LStrip(Tail(s)) ELSE s

RECURSIVE RStrip(_)
RStrip(s) ==
  IF s /= <<>> /\ IsSpace(s[Len(s)]) THEN RStrip(SubSeq(s, 1, Len(s) - 1)) ELSE s

\* str.strip()
Strip(s) == RStrip(LStrip(s))

\* s.replace(c, "") for a one-character c
RECURSIVE Remove(_, _)
Remove(s, c) ==
  IF s = <<>> THEN <<>>
  ELSE IF Head(s) = c THEN Remove(Tail(s), c)
  ELSE <<Head(s)>> \o Remove(Tail(s), c)

\* s.replace(c, d) for one-character c and d
Replace(s, c, d) == [i \in 1..Len(s) |-> IF s[i] = c THEN d ELSE s[i]]

\* s.count(c)
Count(s, c) == Cardinality({i \in 1..Len(s) : s[i] = c})

\* the characters of s as one string (a file name)
RECURSIVE Text(_)
Text(s) == IF s = <<>> THEN "" ELSE Head(s) \o Text(Tail(s))

\* ------------------------------------------------------------ constants

HEADERS ==
  << <<"TICKET DEVOLUCION">>, <<"TICKET FACTURA">>, <<"CAJA">>, <<"TIENDA">>,
     <<"VENDEDOR">>, <<"MONTO DEVUELTO">>, <<"MEDIO DE PAGO">>, <<"MOTIVO">>,
     <<"COMENTARIO">>, <<"TIPO">>, <<"FECHA">> >>

COLUMN_KEYS ==
  << "ticket_devolucion", "ticket_factura", "caja", "tienda", "vendedor",
     "monto_devuelto", "medio_pago", "motivo", "comentario", "tipo_documento",
     "fecha_operacion" >>

ROW7_LABEL == <<"TIENDA CANAL DIGITAL T", "-", "4", "5", "-", "6", "3">>

TOTAL_DEV == "TOTAL DEV"

\* ---------------------------------------------------------------- float

\* A float is NaN or a finite decimal num / 10^dec, kept in lowest terms so
\* that equal numbers are equal values.  float() of a decimal literal of up
\* to 15 digits is the double nearest to it, and two such literals give the
\* same double exactly when they are the same number.  Sums are taken only
\* of amounts that doubles hold exactly (integers, halves), where the
\* double sum is the decimal sum.
NaN == [kind |-> "nan", num |-> 0, dec |-> 0]

RECURSIVE Fin(_, _)
Fin(num, dec) ==
  IF dec > 0 /\ num % 10 = 0 THEN Fin(num \div 10, dec - 1)
  ELSE [kind |-> "fin", num |-> num, dec |-> dec]

RECURSIVE Pow10(_)
Pow10(n) == IF n = 0 THEN 1 ELSE 10 * Pow10(n - 1)

\* a + b on floats
FAdd(a, b) ==
  IF a.kind = "nan" \/ b.kind = "nan" THEN NaN
  ELSE LET d == IF a.dec > b.dec THEN a.dec ELSE b.dec
       IN Fin(a.num * Pow10(d - a.dec) + b.num * Pow10(d - b.dec), d)

\* a == b on floats: NaN equals nothing, itself included
FEq(a, b) == a.kind = "fin" /\ b.kind = "fin" /\ a = b

DIGITS == <<"0", "1", "2", "3", "4", "5", "6", "7", "8", "9">>

IsDigit(c) == \E d \in 1..10 : DIGITS[d] = c

DigitVal(c) == (CHOOSE d \in 1..10 : DIGITS[d] = c) - 1

RECURSIVE DigitsToInt(_, _)
DigitsToInt(s, acc) ==
  IF s = <<>> THEN acc ELSE DigitsToInt(Tail(s), 10 * acc + DigitVal(Head(s)))

VALUE_ERROR == [kind |-> "ValueError"]

\* float(s) for a str of digits, ".", signs, letters and blanks: the value,
\* or VALUE_ERROR
PyFloat(s0) ==
  LET s == Strip(s0)
      signed == s /= <<>> /\ s[1] \in {"+", "-"}
      body == IF signed THEN Tail(s) ELSE s
      sign == IF signed /\ s[1] = "-" THEN -1 ELSE 1
      dots == {i \in 1..Len(body) : body[i] = "."}
      digits == Remove(body, ".")
  IN IF Upper(body) = <<"N", "A", "N">> THEN NaN
     ELSE IF /\ digits /= <<>>
             /\ \A i \in 1..Len(digits) : IsDigit(digits[i])
             /\ Cardinality(dots) <= 1
          THEN LET dec == IF dots = {} THEN 0 ELSE Len(body) - (CHOOSE i \in dots : TRUE)
               IN Fin(sign * DigitsToInt(digits, 0), dec)
          ELSE VALUE_ERROR

\* the None object: a value that is no str
PyNone == <<"None object">>

_safe_float(value) ==
  IF value = PyNone THEN Fin(0, 0)
  ELSE LET s1 == Strip(value)
           s2 == Remove(Remove(Remove(s1, "$"), "L"), SP)
           s3 == IF Count(s2, COMMA) > 0 /\ Count(s2, ".") = 0
                 THEN Replace(Remove(s2, "."), COMMA, ".")
                 ELSE Remove(s2, COMMA)
           f == PyFloat(s3)
       IN IF s1 = <<>> THEN Fin(0, 0)
          ELSE IF f = VALUE_ERROR THEN Fin(0, 0) ELSE f

\* ------------------------------------------------------------------ csv

NeedsQuote(field) == \E i \in 1..Len(field) : field[i] \in {COMMA, QUOTE, CR, LF}

RECURSIVE DoubleQuotes(_)
DoubleQuotes(field) ==
  IF field = <<>> THEN <<>>
  ELSE (IF Head(field) = QUOTE THEN <<QUOTE, QUOTE>> ELSE <<Head(field)>>)
       \o DoubleQuotes(Tail(field))

\* csv.writer: one field, QUOTE_MINIMAL with doublequote
csv_field(field) ==
  IF NeedsQuote(field) THEN <<QUOTE>> \o DoubleQuotes(field) \o <<QUOTE>> ELSE field

RECURSIVE csv_join(_)
csv_join(row) ==
  IF Len(row) = 1 THEN csv_field(row[1])
  ELSE csv_field(Head(row)) \o <<COMMA>> \o csv_join(Tail(row))

\* csv.writer.writerow: a row of one empty field is written as "" (quoted)
csv_writerow(row) ==
  (IF row = <<>> THEN <<>>
   ELSE IF row = << <<>> >> THEN <<QUOTE, QUOTE>>
   ELSE csv_join(row)) \o <<CR, LF>>

RECURSIVE csv_writerows(_)
csv_writerows(rows) ==
  IF rows = <<>> THEN <<>> ELSE csv_writerow(Head(rows)) \o csv_writerows(Tail(rows))

\* the length of the line terminator at position i of text t ("\r\n", "\r" or "\n")
EolLen(t, i) == IF t[i] = CR /\ i < Len(t) /\ t[i + 1] = LF THEN 2 ELSE 1

\* csv.reader over a file opened with newline="", one record: the parser's
\* states are SR (start of record), SF (start of field), IF (in field), IQ (in
\* a quoted field), QQ (a quote seen in a quoted field).  The result is the
\* record's row and the position after it.
RECURSIVE csv_record(_, _, _, _, _)
csv_record(t, i, st, fld, row) ==
  IF i > Len(t) THEN
    [row |-> IF st = "SR" THEN row ELSE Append(row, fld), next |-> i]
  ELSE
    LET c == t[i]
        nl == c \in {CR, LF}
        after == i + EolLen(t, i)
    IN
    CASE st = "SR" ->
           IF nl THEN [row |-> <<>>, next |-> after]
           ELSE csv_record(t, i, "SF", <<>>, <<>>)
      [] st = "SF" ->
           IF nl THEN [row |-> Append(row, <<>>), next |-> after]
           ELSE IF c = QUOTE THEN csv_record(t, i + 1, "IQ", <<>>, row)
           ELSE IF c = COMMA THEN csv_record(t, i + 1, "SF", <<>>, Append(row, <<>>))
           ELSE csv_record(t, i + 1, "IF", <<c>>, row)
      [] st = "IF" ->
           IF nl THEN [row |-> Append(row, fld), next |-> after]
           ELSE IF c = COMMA THEN csv_record(t, i + 1, "SF", <<>>, Append(row, fld))
           ELSE csv_record(t, i + 1, "IF", Append(fld, c), row)
      [] st = "IQ" ->
           IF c = QUOTE THEN csv_record(t, i + 1, "QQ", fld, row)
           ELSE csv_record(t, i + 1, "IQ", Append(fld, c), row)
      [] OTHER ->
           IF c = QUOTE THEN csv_record(t, i + 1, "IQ", Append(fld, c), row)
           ELSE IF c = COMMA THEN csv_record(t, i + 1, "SF", <<>>, Append(row, fld))
           ELSE IF nl THEN [row |-> Append(row, fld), next |-> after]
           ELSE csv_record(t, i + 1, "IF", Append(fld, c), row)

RECURSIVE csv_records(_, _, _)
csv_records(t, i, rows) ==
  IF i > Len(t) THEN rows
  ELSE LET r == csv_record(t, i, "SR", <<>>, <<>>)
       IN csv_records(t, r.next, Append(rows, r.row))

\* list(csv.reader(f))
csv_reader(t) == csv_records(t, 1, <<>>)

\* ---------------------------------------------------------- ledger store

\* get_csv_path keeping only the first part of the date (one file per year)
get_csv_path_first_part(fecha) ==
  LET slug == IF fecha /= <<>> THEN <<Head(fecha)>> ELSE <<"SIN_FECHA">>
  IN "DEV_" \o Text(slug) \o ".csv"

\* get_csv_path falling back to the reserved slug for any date that is not a
\* plain ISO date
get_csv_path_reserved_unless_iso(fecha) ==
  LET iso == Len(fecha) = 5 /\ fecha[2] = DASH /\ fecha[4] = DASH
      slug == IF iso THEN Remove(fecha, DASH) ELSE <<"SIN_FECHA">>
  IN "DEV_" \o Text(slug) \o ".csv"

\* get_csv_path: the file's name
get_csv_path(fecha) ==
  LET slug == IF fecha /= <<>> THEN Remove(fecha, DASH) ELSE <<"SIN_FECHA">>
  IN "DEV_" \o Text(slug) \o ".csv"

\* read_rows over the file system fs (a function from the names of the
\* existing files to their contents)
read_rows(fs, path) == IF path \notin DOMAIN fs THEN <<>> ELSE csv_reader(fs[path])

RECURSIVE PadTo(_, _)
PadTo(rows, n) == IF Len(rows) < n THEN PadTo(Append(rows, <<>>), n) ELSE rows

\* ensure_structure adding the header whenever the rows are not past row 10
ensure_structure_header_added(rows) ==
  LET r6 == PadTo(rows, 6)
      r7 == IF Len(r6) < 7 THEN Append(r6, <<ROW7_LABEL>>)
            ELSE LET first_cell == IF r6[7] /= <<>> THEN r6[7][1] ELSE <<>>
                 IN [r6 EXCEPT ![7] = <<IF first_cell /= <<>> THEN first_cell ELSE ROW7_LABEL>>]
      r9 == PadTo(r7, 9)
  IN IF Len(r9) <= 10 THEN Append(r9, HEADERS) ELSE [r9 EXCEPT ![10] = HEADERS]

ensure_structure(rows) ==
  LET r6 == PadTo(rows, 6)
      r7 == IF Len(r6) < 7 THEN Append(r6, <<ROW7_LABEL>>)
            ELSE LET first_cell == IF r6[7] /= <<>> THEN r6[7][1] ELSE <<>>
                 IN [r6 EXCEPT ![7] = <<IF first_cell /= <<>> THEN first_cell ELSE ROW7_LABEL>>]
      r9 == PadTo(r7, 9)
  IN IF Len(r9) < 10 THEN Append(r9, HEADERS) ELSE [r9 EXCEPT ![10] = HEADERS]

\* row[0].strip().upper().startswith("TOTAL DEV")
IsTotalDev(cell) ==
  LET s == Upper(Strip(cell)) IN s /= <<>> /\ s[1] = TOTAL_DEV

\* find_total_dev_index returning the marker's 1-based row number
find_total_dev_index_one_based(rows) ==
  LET hits == {i \in 1..Len(rows) : rows[i] /= <<>> /\ IsTotalDev(rows[i][1])}
  IN IF hits = {} THEN -1 ELSE CHOOSE i \in hits : \A j \in hits : i <= j

\* find_total_dev_index: the 0-based index of the first marker row, or -1
find_total_dev_index(rows) ==
  LET hits == {i \in 1..Len(rows) : rows[i] /= <<>> /\ IsTotalDev(rows[i][1])}
  IN IF hits = {} THEN -1 ELSE (CHOOSE i \in hits : \A j \in hits : i <= j) - 1

write_rows(fs, path, rows) ==
  [p \in DOMAIN fs \cup {path} |-> IF p = path THEN csv_writerows(rows) ELSE fs[p]]

\* entry.get(key, "")
Get(entry, key) == IF key \in DOMAIN entry THEN entry[key] ELSE <<>>

\* [str(entry.get(key, "")) for key in COLUMN_KEYS]
data_row(entry) == [k \in 1..Len(COLUMN_KEYS) |-> Get(entry, COLUMN_KEYS[k])]

\* rows[insert_at:insert_at] = data_rows
Splice(rows, insert_at, data_rows) ==
  SubSeq(rows, 1, insert_at) \o data_rows \o SubSeq(rows, insert_at + 1, Len(rows))

\* append_entries, lines 335-338: group by the stripped date, keys in the
\* order of their first appearance (a dict keeps insertion order)
RECURSIVE GroupInto(_, _)
GroupInto(es, acc) ==
  IF es = <<>> THEN acc
  ELSE LET entry == Head(es)
           fecha == Strip(Get(entry, "fecha_operacion"))
           hit == {i \in 1..Len(acc) : acc[i].fecha = fecha}
       IN IF hit = {}
          THEN GroupInto(Tail(es), Append(acc, [fecha |-> fecha, items |-> <<entry>>]))
          ELSE LET i == CHOOSE j \in hit : TRUE
               IN GroupInto(Tail(es), [acc EXCEPT ![i].items = Append(@, entry)])

Group(es) == GroupInto(es, <<>>)

\* the rows of a group spliced into a fresh layout, the file not read
spliced_rows_unread(fs, fecha, items) ==
  LET rows == ensure_structure(<<>>)
      data_rows == [k \in 1..Len(items) |-> data_row(items[k])]
  IN Splice(rows, Len(rows), data_rows)

\* append_entries, lines 343-348: the rows one group's write_rows is given
spliced_rows(fs, fecha, items) ==
  LET rows == ensure_structure(read_rows(fs, get_csv_path(fecha)))
      total_idx == find_total_dev_index(rows)
      insert_at == IF total_idx /= -1 THEN total_idx ELSE Len(rows)
      data_rows == [k \in 1..Len(items) |-> data_row(items[k])]
  IN Splice(rows, insert_at, data_rows)

\* _read_entries_from_csv, lines 368-376: the rows from row 11 on, up to the
\* first marker row, empty rows skipped, each padded or cut to 11 values
RECURSIVE entries_of(_, _)
entries_of(data_rows, out) ==
  IF data_rows = <<>> THEN out
  ELSE LET r == Head(data_rows)
       IN IF r = <<>> THEN entries_of(Tail(data_rows), out)
          ELSE IF IsTotalDev(r[1]) THEN out
          ELSE LET values == SubSeq(r \o [i \in 1..Len(COLUMN_KEYS) |-> <<>>],
                                    1, Len(COLUMN_KEYS))
                   entry == [key \in {COLUMN_KEYS[i] : i \in 1..Len(COLUMN_KEYS)} |->
                               values[CHOOSE i \in 1..Len(COLUMN_KEYS) : COLUMN_KEYS[i] = key]]
               IN entries_of(Tail(data_rows), Append(out, entry))

_read_entries_from_csv(fs, path) ==
  LET rows == read_rows(fs, path)
  IN IF Len(rows) < 11 THEN <<>> ELSE entries_of(SubSeq(rows, 11, Len(rows)), <<>>)

\* A file holds bytes, and open(..., encoding="utf-8") decodes them as they
\* are read.  A file's contents are kept as the text they decode to; a byte
\* that is no UTF-8 (a file kept by hand in another encoding) is kept as
\* this token, and reading a file that holds one raises UnicodeDecodeError.
BYTE_FF == "<0xFF>"

Decodes(t) == \A i \in 1..Len(t) : t[i] /= BYTE_FF

\* read_rows(path) raises instead of returning
read_rows_raises(fs, path) == path \in DOMAIN fs /\ ~Decodes(fs[path])

\* the outcome of a call _read_entries_from_csv(path): the exception
\* read_rows lets through, or the value returned
read_entries_outcome(fs, path) ==
  IF read_rows_raises(fs, path)
  THEN [kind |-> "raised", exc |-> "UnicodeDecodeError"]
  ELSE [kind |-> "returned", value |-> _read_entries_from_csv(fs, path)]

\* ----------------------------------------------------------- the report

RECURSIVE DigitsOf(_, _)
DigitsOf(n, width) ==
  IF width = 0 THEN "" ELSE DigitsOf(n \div 10, width - 1) \o DIGITS[(n % 10) + 1]

\* f"{year:04d}" for a year of 0..9999, f"{month:02d}" for a month of 0..99
Fmt04d(year) == DigitsOf(year, 4)
Fmt02d(month) == DigitsOf(month, 2)

\* the names prefix + two digits + ".csv" numbered in days, in sorted order
\* (the order of the numbers: the names differ in the two digits only)
RECURSIVE SortedNames(_, _)
SortedNames(prefix, days) ==
  IF days = {} THEN <<>>
  ELSE LET day == CHOOSE d \in days : \A e \in days : d <= e
       IN <<prefix \o Fmt02d(day) \o ".csv">> \o SortedNames(prefix, days \ {day})

\* the files DEV_<yyyy><mm><two digits>.csv of the directory, sorted
_iter_month_csv_files(fs, year, month) ==
  LET prefix == "DEV_" \o Fmt04d(year) \o Fmt02d(month)
  IN SortedNames(prefix, {day \in 0..99 : (prefix \o Fmt02d(day) \o ".csv") \in DOMAIN fs})

RECURSIVE entries_of_files(_, _)
entries_of_files(fs, paths) ==
  IF paths = <<>> THEN <<>>
  ELSE _read_entries_from_csv(fs, Head(paths)) \o entries_of_files(fs, Tail(paths))

VACIO == <<"(vacío)">>
SIN_FECHA == <<"SIN_FECHA">>

\* str(e.get(key, "")).strip() or placeholder
Label(e, key, placeholder) ==
  LET v == Strip(Get(e, key)) IN IF v /= <<>> THEN v ELSE placeholder

\* one defaultdict of {"count", "amount"} after the loop of lines 394-411
RECURSIVE Rollup(_, _, _, _)
Rollup(es, key, placeholder, d) ==
  IF es = <<>> THEN d
  ELSE LET e == Head(es)
           label == Label(e, key, placeholder)
           amt == _safe_float(Get(e, "monto_devuelto"))
           old == IF label \in DOMAIN d THEN d[label]
                  ELSE [count |-> 0, amount |-> Fin(0, 0)]
           new == [count |-> old.count + 1, amount |-> FAdd(old.amount, amt)]
       IN Rollup(Tail(es), key, placeholder,
                 [l \in DOMAIN d \cup {label} |-> IF l = label THEN new ELSE d[l]])

RECURSIVE SumAmount(_, _)
SumAmount(es, acc) ==
  IF es = <<>> THEN acc
  ELSE SumAmount(Tail(es), FAdd(acc, _safe_float(Get(Head(es), "monto_devuelto"))))

\* what _build_monthly_report_xlsx computes (lines 381-411) and the rows of
\* its detail sheet (lines 472-475)
_build_monthly_report_xlsx(fs, year, month) ==
  LET es == entries_of_files(fs, _iter_month_csv_files(fs, year, month))
  IN [kind |-> "xlsx", year |-> year, month |-> month,
      total_amount |-> SumAmount(es, Fin(0, 0)),
      total_count |-> Len(es),
      by_day |-> Rollup(es, "fecha_operacion", SIN_FECHA, <<>>),
      by_tienda |-> Rollup(es, "tienda", VACIO, <<>>),
      by_motivo |-> Rollup(es, "motivo", VACIO, <<>>),
      by_medio |-> Rollup(es, "medio_pago", VACIO, <<>>),
      by_tipo |-> Rollup(es, "tipo_documento", VACIO, <<>>),
      detail |-> <<HEADERS>> \o [i \in 1..Len(es) |-> data_row(es[i])]]

HTTP_400 == [kind |-> "HTTPException", status_code |-> 400]

\* report_monthly
report_monthly(fs, year, month) ==
  IF month < 1 \/ month > 12 THEN HTTP_400
  ELSE _build_monthly_report_xlsx(fs, year, month)

\* ------------------------------------------------- the narrative report

_ES_MONTH_ABBR ==
  <<"Ene", "Feb", "Mar", "Abr", "May", "Jun", "Jul", "Ago", "Sep", "Oct", "Nov", "Dic">>

\* the years a date of the ledger may name (strptime takes 1..9999)
ParseYears == 2020..2029

\* the numbers of lo..hi that the digits tok denote under %m or %d: one or
\* two digits
NumbersOf(tok, lo, hi) ==
  {n \in lo..hi : tok = Fmt02d(n) \/ (n < 10 /\ tok = DIGITS[n + 1])}

DaysIn(year, month) ==
  IF month = 2
  THEN (IF year % 4 = 0 /\ (year % 100 /= 0 \/ year % 400 = 0) THEN 29 ELSE 28)
  ELSE IF month \in {4, 6, 9, 11} THEN 30 ELSE 31

NO_DATE == [kind |-> "None"]

\* _parse_iso_date: datetime.strptime(value, "%Y-%m-%d"), None when it
\* raises.  A date is held as its runs of digits and its dashes.
_parse_iso_date(value) ==
  IF Len(value) /= 5 \/ value[2] /= DASH \/ value[4] /= DASH THEN NO_DATE
  ELSE LET years == {n \in ParseYears : value[1] = Fmt04d(n)}
           months == NumbersOf(value[3], 1, 12)
       IN IF years = {} \/ months = {} THEN NO_DATE
          ELSE LET year == CHOOSE n \in years : TRUE
                   month == CHOOSE n \in months : TRUE
                   days == NumbersOf(value[5], 1, DaysIn(year, month))
               IN IF days = {} THEN NO_DATE
                  ELSE [kind |-> "datetime", year |-> year, month |-> month,
                        day |-> CHOOSE n \in days : TRUE]

\* _format_day_es: f"{dt.day:02d}-{_ES_MONTH_ABBR[dt.month]}"
_format_day_es(dt) == <<Fmt02d(dt.day), DASH, _ES_MONTH_ABBR[dt.month]>>

\* str.lower() on one piece of text
LowerTok(c) ==
  CASE c = "REFACT" -> "refact"
    [] c = "Refact" -> "refact"
    [] c = "CEDI" -> "cedi"
    [] c = "Inventario" -> "inventario"
    [] OTHER -> c

\* word in s.lower(), for a text s held in pieces none of which holds the
\* word in part
Contains(s, word) == \E i \in 1..Len(s) : LowerTok(s[i]) = word

\* the filter looking at the return ticket only
HasTicket_devolucion_only(e) == Strip(Get(e, "ticket_devolucion")) /= <<>>

\* the "real tickets" of lines 496-500
HasTicket(e) ==
  Strip(Get(e, "ticket_devolucion")) /= <<>> \/ Strip(Get(e, "ticket_factura")) /= <<>>

real_entries(es) == SelectSeq(es, HasTicket)

\* the key of a record in the narrative by_day (lines 507-509)
DayKey(e) ==
  LET fecha_raw == Strip(Get(e, "fecha_operacion"))
      dt == _parse_iso_date(fecha_raw)
  IN IF dt /= NO_DATE THEN _format_day_es(dt)
     ELSE IF fecha_raw /= <<>> THEN fecha_raw ELSE SIN_FECHA

\* by_day after the loop of lines 506-511
RECURSIVE DayRollup(_, _)
DayRollup(es, d) ==
  IF es = <<>> THEN d
  ELSE LET e == Head(es)
           key == DayKey(e)
           amt == _safe_float(Get(e, "monto_devuelto"))
           old == IF key \in DOMAIN d THEN d[key] ELSE [count |-> 0, amount |-> Fin(0, 0)]
           new == [count |-> old.count + 1, amount |-> FAdd(old.amount, amt)]
       IN DayRollup(Tail(es), [l \in DOMAIN d \cup {key} |-> IF l = key THEN new ELSE d[l]])

IsRefact(e) == Contains(Get(e, "motivo"), "refact") \/ Contains(Get(e, "comentario"), "refact")

IsLogistics(e) ==
  Contains(Get(e, "comentario"), "cedi") \/ Contains(Get(e, "comentario"), "inventario")

\* a < b on floats: false when either is NaN
FLt(a, b) ==
  /\ a.kind = "fin" /\ b.kind = "fin"
  /\ LET d == IF a.dec > b.dec THEN a.dec ELSE b.dec
     IN a.num * Pow10(d - a.dec) < b.num * Pow10(d - b.dec)

\* the keys of by_vendor in the order a dict keeps: that of first appearance
RECURSIVE VendorKeys(_, _)
VendorKeys(es, keys) ==
  IF es = <<>> THEN keys
  ELSE LET vendor == Label(Head(es), "vendedor", VACIO)
       IN VendorKeys(Tail(es),
                     IF \E i \in 1..Len(keys) : keys[i] = vendor THEN keys
                     ELSE Append(keys, vendor))

\* sorted(by_vendor.items(), key=amount, reverse=True): by falling amount,
\* items of equal amount in their order
RECURSIVE SortedByAmount(_, _, _)
SortedByAmount(keys, d, out) ==
  IF keys = <<>> THEN out
  ELSE LET k == Head(keys)
           before_k == {i \in 1..Len(out) : ~FLt(d[out[i]].amount, d[k].amount)}
           n == IF \E i \in 1..Len(out) : i \notin before_k
                THEN (CHOOSE i \in 1..Len(out) :
                        i \notin before_k /\ \A j \in 1..(i - 1) : j \in before_k) - 1
                ELSE Len(out)
       IN SortedByAmount(Tail(keys), d,
                         SubSeq(out, 1, n) \o <<k>> \o SubSeq(out, n + 1, Len(out)))

\* what _build_monthly_report_pdf computes from the records es of the
\* month's files (lines 495-565) before it lays out the pages
narrative(es, year, month) ==
  LET real == real_entries(es)
      by_vendor == Rollup(real, "vendedor", VACIO, <<>>)
      ranked == SortedByAmount(VendorKeys(real, <<>>), by_vendor, <<>>)
  IN [kind |-> "pdf", year |-> year, month |-> month,
      total_count |-> Len(real),
      total_amount |-> SumAmount(real, Fin(0, 0)),
      by_day |-> DayRollup(real, <<>>),
      refact_count |-> Len(SelectSeq(real, IsRefact)),
      refact_amount |-> SumAmount(SelectSeq(real, IsRefact), Fin(0, 0)),
      inv_cedi_count |-> Len(SelectSeq(real, IsLogistics)),
      by_vendor |-> by_vendor,
      top_vendors |-> SubSeq(ranked, 1, IF Len(ranked) < 5 THEN Len(ranked) ELSE 5)]

_build_monthly_report_pdf(fs, year, month) ==
  narrative(entries_of_files(fs, _iter_month_csv_files(fs, year, month)), year, month)

\* report_monthly_pdf
report_monthly_pdf(fs, year, month) ==
  IF month < 1 \/ month > 12 THEN HTTP_400
  ELSE _build_monthly_report_pdf(fs, year, month)

\* ------------------------------------------- the reports' file accesses

\* the accesses of _iter_month_csv_files and of _read_entries_from_csv on
\* each file it found: the directory is listed, each match is tested, each
\* file is tested and opened
month_io(fs, year, month) ==
  LET paths == _iter_month_csv_files(fs, year, month)
  IN <<[op |-> "glob", arg |-> "DEV_" \o Fmt04d(year) \o Fmt02d(month) \o "[0-9][0-9].csv"]>>
     \o [i \in 1..Len(paths) |-> [op |-> "is_file", arg |-> paths[i]]]
     \o [i \in 1..(2 * Len(paths)) |->
           [op |-> IF i % 2 = 1 THEN "exists" ELSE "open r", arg |-> paths[(i + 1) \div 2]]]

\* the file accesses of a request GET /report/monthly, in order
report_monthly_io(fs, year, month) ==
  IF month < 1 \/ month > 12 THEN <<>>
  ELSE month_io(fs, year, month) \o <<[op |-> "exists", arg |-> "baseline.xlsx"]>>

\* the accesses of report_monthly_pdf were it to build the report first and
\* test the month after
report_monthly_pdf_io_built_first(fs, year, month) == month_io(fs, year, month)

\* the file accesses of a request GET /report/monthly/pdf, in order
report_monthly_pdf_io(fs, year, month) ==
  IF month < 1 \/ month > 12 THEN <<>> ELSE month_io(fs, year, month)

\* the entry of a request in the log of accesses
Request(handler, year, month) ==
  [op |-> "request", arg |-> handler, year |-> year, month |-> month]

\* ------------------------------------------------------------------ state

Callers == {1, 2}

VARIABLES
  files,        \* the data directory: file name -> contents (CSV text)
  pc,           \* per caller: "idle", "loop", "write", "returned", "raised"
  entries,      \* per caller: the argument of its append_entries call
  grouped,      \* per caller: the groups of the call, in processing order
  gi,           \* per caller: the index of the group being processed
  rows,         \* per caller: the local rows, read and spliced, not yet written
  saved_files,  \* per caller: the list the call returns
  before,       \* per caller: the data directory when the call started
  pre,          \* per caller: the data directory when the last group was read
  overlap,      \* whether a call started while another was running
  x,            \* the argument of the function applied on its own; with the
                \* reports, the log of their requests and file accesses
  y,            \* its result
  z,            \* the result of applying it to its own result; with the
                \* reports, the response of GET /report/monthly/pdf
  report        \* the response of GET /report/monthly

calc == <<x, y, z, report>>

vars == <<files, pc, entries, grouped, gi, rows, saved_files, before, pre, overlap, calc>>

\* ----------------------------------------------------------------- inputs

MaxEntries == 2
MaxConcEntries == 1

D5 == <<"2024", DASH, "03", DASH, "05">>
D6 == <<"2024", DASH, "03", DASH, "06">>

Entry(td, tienda, monto, comentario, fecha) ==
  [k \in {"ticket_devolucion", "ticket_factura", "caja", "tienda", "vendedor",
          "monto_devuelto", "medio_pago", "motivo", "comentario", "tipo_documento",
          "fecha_operacion"} |->
     CASE k = "ticket_devolucion" -> td
       [] k = "tienda" -> tienda
       [] k = "monto_devuelto" -> monto
       [] k = "comentario" -> comentario
       [] k = "fecha_operacion" -> fecha
       [] OTHER -> <<>>]

\* the records a call may carry
EntryPool ==
  { Entry(<<"T1">>, <<"A">>, <<"5", "0", "0">>, <<>>, D5),
    Entry(<<"T2">>, <<>>, <<"1", COMMA, "5">>, <<"dijo", SP, QUOTE, "ok", QUOTE, LF>>, D6),
    Entry(<<SP, "total dev", "x">>, <<"A">>, <<"7">>, <<>>, D5),
    Entry(<<"T4">>, <<"B">>, <<"2">>, <<>>, <<"20240305">>),
    Entry(<<>>, <<>>, <<>>, <<>>, <<SP, "2024", DASH, "03", DASH, "05", SP>>),
    Entry(<<"T6">>, <<>>, <<"3">>, <<>>, <<"ayer">>),
    Entry(<<"T7">>, <<>>, <<>>, <<>>, <<"SIN", DASH, "_FECHA">>),
    [k \in {"tipo_documento"} |-> <<"devolucion">>] }

SeqsUpTo(S, n) == UNION {[1..k -> S] : k \in 0..n}

MARKER_ROW == << <<"TOTAL DEV", "OLUCIONES">>, <<>>, <<"9">> >>

OLD_ROW == data_row(Entry(<<"T0">>, <<"A">>, <<"1">>, <<>>, D5))

HEAD10 == ensure_structure(<<>>)

\* the contents DEV_20240305.csv may have before the call: written by this
\* program, or kept by hand in the legacy layout
InitialRows ==
  { HEAD10,
    HEAD10 \o <<MARKER_ROW>>,
    HEAD10 \o <<OLD_ROW, MARKER_ROW>>,
    HEAD10 \o <<OLD_ROW>>,
    HEAD10 \o <<MARKER_ROW, << <<"nota">> >> >>,
    << << <<"x">> >>, MARKER_ROW >>,
    << << <<"hoja">> >>, <<>>, <<>>, <<>>, <<>>, <<>>,
       << <<"TIENDA 9">>, <<"z">> >>, <<>>, <<>>, << <<"COL">> >>,
       << <<"T0">> >>, <<>>, OLD_ROW, MARKER_ROW >> }

InitialFiles ==
  {<<>>} \cup {[p \in {get_csv_path(D5)} |-> csv_writerows(r)] : r \in InitialRows}

\* ---------------------------------------------------------------- actions

Running(p) == pc[p] \in {"loop", "write"}

\* append_entries is called with es (lines 334-340)
Call(p, es) ==
  /\ pc[p] = "idle"
  /\ pc' = [pc EXCEPT ![p] = "loop"]
  /\ entries' = [entries EXCEPT ![p] = es]
  /\ grouped' = [grouped EXCEPT ![p] = Group(es)]
  /\ gi' = [gi EXCEPT ![p] = 1]
  /\ saved_files' = [saved_files EXCEPT ![p] = <<>>]
  /\ before' = [before EXCEPT ![p] = files]
  /\ overlap' = (overlap \/ \E q \in Callers \ {p} : Running(q))
  /\ UNCHANGED <<files, rows, pre, calc>>

\* lines 341-348 for the next group: the file is read and the rows spliced
ReadGroup(p) ==
  /\ pc[p] = "loop"
  /\ gi[p] <= Len(grouped[p])
  /\ LET g == grouped[p][gi[p]]
     IN rows' = [rows EXCEPT ![p] = spliced_rows(files, g.fecha, g.items)]
  /\ pre' = [pre EXCEPT ![p] = files]
  /\ pc' = [pc EXCEPT ![p] = "write"]
  /\ UNCHANGED <<files, entries, grouped, gi, saved_files, before, overlap, calc>>

\* lines 349-350: write_rows succeeds
WriteGroup(p) ==
  /\ pc[p] = "write"
  /\ LET path == get_csv_path(grouped[p][gi[p]].fecha)
     IN /\ files' = write_rows(files, path, rows[p])
        /\ saved_files' = [saved_files EXCEPT ![p] = Append(@, path)]
  /\ gi' = [gi EXCEPT ![p] = @ + 1]
  /\ rows' = [rows EXCEPT ![p] = <<>>]
  /\ pc' = [pc EXCEPT ![p] = "loop"]
  /\ UNCHANGED <<entries, grouped, before, pre, overlap, calc>>

\* write_rows raises and the call undoes the writes of the earlier groups
WriteFails_rollback(p, truncated) ==
  /\ pc[p] = "write"
  /\ files' = before[p]
  /\ pc' = [pc EXCEPT ![p] = "raised"]
  /\ UNCHANGED <<entries, grouped, gi, rows, saved_files, before, pre, overlap, calc>>

\* line 349: write_rows raises OSError, either in open() (the file is as it
\* was) or after open() has truncated the file
WriteFails(p, truncated) ==
  /\ pc[p] = "write"
  /\ LET path == get_csv_path(grouped[p][gi[p]].fecha)
     IN files' = IF truncated THEN write_rows(files, path, <<>>) ELSE files
  /\ pc' = [pc EXCEPT ![p] = "raised"]
  /\ UNCHANGED <<entries, grouped, gi, rows, saved_files, before, pre, overlap, calc>>

\* line 352: every group is written, the call returns saved_files
Return(p) ==
  /\ pc[p] = "loop"
  /\ gi[p] > Len(grouped[p])
  /\ pc' = [pc EXCEPT ![p] = "returned"]
  /\ UNCHANGED <<files, entries, grouped, gi, rows, saved_files, before, pre, overlap, calc>>

InitCallers ==
  /\ pc = [p \in Callers |-> "idle"]
  /\ entries = [p \in Callers |-> <<>>]
  /\ grouped = [p \in Callers |-> <<>>]
  /\ gi = [p \in Callers |-> 1]
  /\ rows = [p \in Callers |-> <<>>]
  /\ saved_files = [p \in Callers |-> <<>>]
  /\ before = [p \in Callers |-> <<>>]
  /\ pre = [p \in Callers |-> <<>>]
  /\ overlap = FALSE

PENDING == [kind |-> "pending"]

InitCalc ==
  /\ x = <<>>
  /\ y = PENDING
  /\ z = PENDING
  /\ report = PENDING

\* one call of append_entries on any initial directory
Init ==
  /\ files \in InitialFiles
  /\ InitCallers
  /\ InitCalc

Next ==
  \/ \E es \in SeqsUpTo(EntryPool, MaxEntries) : Call(1, es)
  \/ ReadGroup(1)
  \/ WriteGroup(1)
  \/ \E truncated \in BOOLEAN : WriteFails(1, truncated)
  \/ Return(1)

Spec == Init /\ [][Next]_vars

\* the records two concurrent calls may carry
ConcEntryPool ==
  { Entry(<<"T1">>, <<"A">>, <<"5", "0", "0">>, <<>>, D5),
    Entry(<<"T8">>, <<"B">>, <<"2">>, <<>>, D5),
    Entry(<<"T2">>, <<>>, <<"1", COMMA, "5">>, <<>>, D6) }

\* two calls of append_entries, in any interleaving of their steps, every
\* write succeeding
InitConc ==
  /\ files \in {<<>>, [p \in {get_csv_path(D5)} |-> csv_writerows(HEAD10 \o <<OLD_ROW, MARKER_ROW>>)]}
  /\ InitCallers
  /\ InitCalc

NextConc ==
  \E p \in Callers :
    \/ \E es \in SeqsUpTo(ConcEntryPool, MaxConcEntries) \ {<<>>} : Call(p, es)
    \/ ReadGroup(p)
    \/ WriteGroup(p)
    \/ Return(p)

SpecConc == InitConc /\ [][NextConc]_vars

\* ---------------------------------------------------- _safe_float alone

MaxAmountLen == 2

AmountAlphabet == {"0", "1", "5", ".", COMMA, "$", "L", SP, "-", "n", "a", "x"}

\* the amounts of the specification's examples, None, and every short str
AmountInputs ==
  { PyNone,
    <<"1", ".", "2", "3", "4", COMMA, "5", "6">>,
    <<"1", COMMA, "2", "3", "4", ".", "5", "6">>,
    <<"$", SP, "4", "5", "L">>,
    <<"1", "0", ".", "0", "0", "0", COMMA, "0", "0">>,
    <<"5", "0", "0">>,
    <<"n", "a", "n">>,
    <<"x", "x", "x">> }
  \cup SeqsUpTo(AmountAlphabet, MaxAmountLen)

InitAmount ==
  /\ files = <<>>
  /\ InitCallers
  /\ x \in AmountInputs
  /\ y = PENDING
  /\ z = PENDING
  /\ report = PENDING

\* _safe_float(x) is called
ParseAmount ==
  /\ y = PENDING
  /\ y' = _safe_float(x)
  /\ UNCHANGED <<files, pc, entries, grouped, gi, rows, saved_files, before, pre, overlap,
                 x, z, report>>

SpecAmount == InitAmount /\ [][ParseAmount]_vars

\* ------------------------------------------------ ensure_structure alone

MaxRows == 12

\* what a row of the file may be: empty, one empty cell, a label and a
\* second cell, the header, a marker row, a data row
RowPool ==
  { <<>>, << <<>> >>, << <<"TIENDA 9">>, <<"z">> >>, HEADERS, MARKER_ROW, OLD_ROW }

\* row sets of up to MaxRows rows, with any of the rows above as row 7, as
\* row 10 and as each other row
RowSets ==
  { [i \in 1..n |-> IF i = 7 THEN r7 ELSE IF i = 10 THEN r10 ELSE r] :
      n \in 0..MaxRows, r7 \in RowPool, r10 \in RowPool, r \in RowPool }

InitStructure ==
  /\ files = <<>>
  /\ InitCallers
  /\ x \in RowSets
  /\ y = PENDING
  /\ z = PENDING
  /\ report = PENDING

\* y = ensure_structure(x)
Structure ==
  /\ y = PENDING
  /\ y' = ensure_structure(x)
  /\ UNCHANGED <<files, pc, entries, grouped, gi, rows, saved_files, before, pre, overlap,
                 x, z, report>>

\* z = ensure_structure(y)
StructureAgain ==
  /\ y /= PENDING
  /\ z = PENDING
  /\ z' = ensure_structure(y)
  /\ UNCHANGED <<files, pc, entries, grouped, gi, rows, saved_files, before, pre, overlap,
                 x, y, report>>

NextStructure == Structure \/ StructureAgain

SpecStructure == InitStructure /\ [][NextStructure]_vars

\* ------------------------------------------ _read_entries_from_csv alone

MaxTailRows == 3

LONG_ROW == [i \in 1..13 |-> <<DIGITS[(i % 10) + 1]>>]

\* what a row below the header may be: a blank line, a row with one empty
\* cell, a short row, a full row, a row longer than the header, a marker
\* row, a row whose first cell reads like a marker once trimmed and
\* upper-cased
TailRowPool ==
  { <<>>, << <<>> >>, << <<"a">>, <<"b">> >>, OLD_ROW, LONG_ROW, MARKER_ROW,
    << <<SP, "total dev", "x">>, <<"7">> >> }

\* the first rows of a file: none, the ten of the layout, nine rows only,
\* ten rows with a marker row among them
ReadHeads ==
  { <<>>, HEAD10, SubSeq(HEAD10, 1, 9), [HEAD10 EXCEPT ![3] = MARKER_ROW] }

READ_PATH == get_csv_path(D5)

\* the directory before the read: the file absent, written by csv.writer
\* from any of the row sets above, ending in an open quote, or holding a
\* byte that is no UTF-8
ReadFiles ==
  {<<>>}
  \cup { [p \in {READ_PATH} |-> csv_writerows(head \o tail)] :
           head \in ReadHeads, tail \in SeqsUpTo(TailRowPool, MaxTailRows) }
  \cup { [p \in {READ_PATH} |-> csv_writerows(HEAD10) \o t] :
           t \in { <<"a", CR, LF, QUOTE, "b", CR, LF, "c", COMMA, "d", CR, LF>>,
                   <<"a", COMMA, "b">>,
                   <<"DEVOLUCI", BYTE_FF, "N", COMMA, "1", CR, LF>> } }

InitRead ==
  /\ files \in ReadFiles
  /\ InitCallers
  /\ InitCalc

\* _read_entries_from_csv(READ_PATH) is called
ReadEntries ==
  /\ y = PENDING
  /\ y' = read_entries_outcome(files, READ_PATH)
  /\ UNCHANGED <<files, pc, entries, grouped, gi, rows, saved_files, before, pre, overlap,
                 x, z, report>>

SpecRead == InitRead /\ [][ReadEntries]_vars

\* ------------------------------------------------- save, then report

MaxReportEntries == 3

D0401 == <<"2024", DASH, "04", DASH, "01">>
D2023 == <<"2023", DASH, "03", DASH, "05">>

\* the three records of the end-to-end scenario
E2E_1 == Entry(<<"T1">>, <<"A">>, <<"1", "0", ".", "0", "0", "0", COMMA, "0", "0">>, <<>>, D5)
E2E_2 == Entry(<<"T2">>, <<"A">>, <<"5", "0", "0">>, <<>>, D5)
E2E_3 == Entry(<<"T3">>, <<>>, <<>>, <<>>, D5)

\* the records a save may carry before a report: the three above, one whose
\* amount reads "nan", one of another month with a blank store, a reason, a
\* payment method and a type, one of another year
ReportPool ==
  { E2E_1, E2E_2, E2E_3,
    Entry(<<"T4">>, <<"B">>, <<"n", "a", "n">>, <<>>, D6),
    [Entry(<<"T5">>, <<SP>>, <<"1", COMMA, "5">>, <<>>, D0401)
       EXCEPT !["motivo"] = <<"cambio">>, !["medio_pago"] = <<"efectivo">>,
              !["tipo_documento"] = <<"devolucion">>],
    Entry(<<"T6">>, <<"A">>, <<"2">>, <<>>, D2023) }

\* a file kept by hand whose only record has no date
LEGACY_FILE == csv_writerows(HEAD10 \o <<data_row(Entry(<<"T0">>, <<"B">>, <<"4">>, <<>>, <<>>)),
                                        MARKER_ROW>>)

InitReport ==
  /\ files \in {<<>>, [path \in {"DEV_20240306.csv"} |-> LEGACY_FILE]}
  /\ InitCallers
  /\ InitCalc

ReportYears == {2023, 2024}
ReportMonths == {0, 3, 4, 13}

\* GET /report/monthly, once the save has answered; one request a behaviour
Report(year, month) ==
  /\ pc[1] = "returned"
  /\ report = PENDING
  /\ report' = report_monthly(files, year, month)
  /\ x' = x \o <<Request("report_monthly", year, month)>>
            \o report_monthly_io(files, year, month)
  /\ UNCHANGED <<files, pc, entries, grouped, gi, rows, saved_files, before, pre, overlap,
                 y, z>>

NextReport ==
  \/ \E es \in SeqsUpTo(ReportPool, MaxReportEntries) : Call(1, es)
  \/ ReadGroup(1)
  \/ WriteGroup(1)
  \/ Return(1)
  \/ \E year \in ReportYears, month \in ReportMonths : Report(year, month)

SpecReport == InitReport /\ [][NextReport]_vars

\* --------------------------------------- save, then the two reports

MaxNarrativeEntries == 2

\* the records a save may carry before the two reports: with a return
\* ticket, with blank tickets only, with an invoice ticket only, with
\* nothing but a date, with a date that is no ISO date
NarrativePool ==
  { [Entry(<<"T1">>, <<"A">>, <<"5", "0", "0">>, <<>>, D5)
       EXCEPT !["vendedor"] = <<"ana">>, !["motivo"] = <<"Refact", "uracion">>],
    [Entry(<<SP>>, <<"A">>, <<"4">>, <<"CEDI">>, D5)
       EXCEPT !["vendedor"] = <<"ana">>, !["motivo"] = <<"REFACT">>],
    [Entry(<<>>, <<"B">>, <<"1", COMMA, "5">>, <<"Inventario", SP, "ok">>, D6)
       EXCEPT !["ticket_factura"] = <<"F3">>],
    Entry(<<>>, <<>>, <<>>, <<>>, D5),
    [Entry(<<"T5">>, <<"B">>, <<"2">>, <<>>, <<"20240305">>)
       EXCEPT !["vendedor"] = <<"luis">>] }

\* GET /report/monthly/pdf, once the save has answered; one request a
\* behaviour
ReportPdf(year, month) ==
  /\ pc[1] = "returned"
  /\ z = PENDING
  /\ z' = report_monthly_pdf(files, year, month)
  /\ x' = x \o <<Request("report_monthly_pdf", year, month)>>
            \o report_monthly_pdf_io(files, year, month)
  /\ UNCHANGED <<files, pc, entries, grouped, gi, rows, saved_files, before, pre, overlap,
                 y, report>>

NextNarrative ==
  \/ \E es \in SeqsUpTo(NarrativePool, MaxNarrativeEntries) : Call(1, es)
  \/ ReadGroup(1)
  \/ WriteGroup(1)
  \/ Return(1)
  \/ \E year \in ReportYears, month \in ReportMonths : Report(year, month)
  \/ \E year \in ReportYears, month \in ReportMonths : ReportPdf(year, month)

SpecNarrative == InitReport /\ [][NextNarrative]_vars

\* ------------------------------------------------------------ properties

IsMarkerRow(r) == r /= <<>> /\ IsTotalDev(r[1])

\* caller p has just written a group: the group, and its rows as written
JustWrote(p) == pc[p] = "loop" /\ gi[p] > 1
LastGroup(p) == grouped[p][gi[p] - 1]
DataRows(items) == [k \in 1..Len(items) |-> data_row(items[k])]

\* C1 as claimed: whenever the file read by a group held a marker row, the
\* file written has a marker row last and the group's rows right before it.
C1_MarkerRowStaysLast ==
  JustWrote(1) =>
    LET g == LastGroup(1)
        path == get_csv_path(g.fecha)
        old == read_rows(pre[1], path)
        new == read_rows(files, path)
        n == Len(g.items)
    IN (\E i \in 1..Len(old) : IsMarkerRow(old[i])) =>
         /\ Len(new) > n
         /\ IsMarkerRow(new[Len(new)])
         /\ SubSeq(new, Len(new) - n, Len(new) - 1) = DataRows(g.items)

\* the rows have a marker row, and the first one lies at row 11 or below
MarkerBelowHeader(old) ==
  /\ \E i \in 11..Len(old) : IsMarkerRow(old[i])
  /\ \A i \in 1..10 : i <= Len(old) => ~IsMarkerRow(old[i])

FirstMarker(old) == CHOOSE i \in 1..Len(old) : IsMarkerRow(old[i]) /\ \A j \in 1..(i - 1) : ~IsMarkerRow(old[j])

\* C1 amended: when the file's first marker row lies at row 11 or below, the
\* group's new rows sit immediately before that row, and that row and every
\* row after it follow unchanged, so a marker row that was the last row is
\* still the last row, whatever the new records carry.
C1_LastMarkerRowStaysLast ==
  JustWrote(1) =>
    LET g == LastGroup(1)
        path == get_csv_path(g.fecha)
        old == read_rows(pre[1], path)
        new == read_rows(files, path)
        n == Len(g.items)
    IN MarkerBelowHeader(old) =>
         LET m == FirstMarker(old)
         IN /\ Len(new) = Len(old) + n
            /\ SubSeq(new, m, m + n - 1) = DataRows(g.items)
            /\ SubSeq(new, m + n, Len(new)) = SubSeq(old, m, Len(old))
            /\ IsMarkerRow(old[Len(old)]) => new[Len(new)] = old[Len(old)]

\* C1 witness: two rows, one of them with a ticket that reads like a marker,
\* have been written into a file whose last row was its only marker row.
C1_Witness ==
  /\ JustWrote(1)
  /\ LET old == read_rows(pre[1], get_csv_path(LastGroup(1).fecha))
     IN /\ MarkerBelowHeader(old)
        /\ FirstMarker(old) = Len(old)
  /\ Len(LastGroup(1).items) = 2
  /\ \E k \in 1..2 : IsTotalDev(Get(LastGroup(1).items[k], "ticket_devolucion"))

\* a second group of the call has been written into the file the first left
\* with two marker rows: its rows sit before the first of them
C1_TwoMarkerRows ==
  /\ JustWrote(1)
  /\ gi[1] = 3
  /\ LET old == read_rows(pre[1], get_csv_path(LastGroup(1).fecha))
     IN /\ MarkerBelowHeader(old)
        /\ FirstMarker(old) < Len(old)
        /\ IsMarkerRow(old[Len(old)])

\* the file holds the header layout and at most a trailing marker row
HeaderLayoutOnly(old) ==
  \/ old = <<>>
  \/ /\ Len(old) \in {10, 11}
     /\ SubSeq(old, 1, 10) = ensure_structure(<<>>)
     /\ Len(old) = 11 => IsMarkerRow(old[11])

\* C2 as claimed: the N records of one call, all of one date, written into a
\* file that was absent or held only the header layout and an optional
\* marker row, are read back as N records equal to the input field by field.
C2_RoundTrip ==
  (pc[1] = "returned" /\ Len(grouped[1]) = 1) =>
    LET path == get_csv_path(grouped[1][1].fecha)
        out == _read_entries_from_csv(files, path)
    IN HeaderLayoutOnly(read_rows(before[1], path)) =>
         /\ Len(out) = Len(entries[1])
         /\ \A i \in 1..Len(out) : \A k \in 1..Len(COLUMN_KEYS) :
              out[i][COLUMN_KEYS[k]] = Get(entries[1][i], COLUMN_KEYS[k])

\* the groups gs appended one after the other to the directory fs, every
\* write succeeding
RECURSIVE AppendGroups(_, _)
AppendGroups(fs, gs) ==
  IF gs = <<>> THEN fs
  ELSE LET g == Head(gs)
       IN AppendGroups(write_rows(fs, get_csv_path(g.fecha),
                                  spliced_rows(fs, g.fecha, g.items)), Tail(gs))

\* file path is the same (absent, or with the same contents) in fs1 and fs2
SameFile(fs1, fs2, path) ==
  /\ path \in DOMAIN fs1 <=> path \in DOMAIN fs2
  /\ path \in DOMAIN fs1 => fs1[path] = fs2[path]

PathOf(p, k) == get_csv_path(grouped[p][k].fecha)

\* the groups of caller p without group k
Without(p, k) == SubSeq(grouped[p], 1, k - 1) \o SubSeq(grouped[p], k + 1, Len(grouped[p]))

\* C4 as claimed: when the write of one date's group fails, the file of
\* every other date of the call holds what the call would have left in it
\* had the failing date's records not been part of the call.
C4_OtherDatesUnaffected ==
  pc[1] = "raised" =>
    \A k \in 1..Len(grouped[1]) :
      (k /= gi[1] /\ PathOf(1, k) /= PathOf(1, gi[1])) =>
        /\ PathOf(1, k) \in DOMAIN files
        /\ SameFile(files, AppendGroups(before[1], Without(1, gi[1])), PathOf(1, k))

\* C4 amended: the call stops at the failing group.  The dates processed
\* before it (and kept in another file than the failing date's) hold their
\* batches as a call carrying only them would have left them; the dates
\* after it are not written: their files are as the groups before left them.
C4_EarlierDatesKeptLaterDatesSkipped ==
  pc[1] = "raised" =>
    LET done == SubSeq(grouped[1], 1, gi[1] - 1)
    IN /\ saved_files[1] = [k \in 1..(gi[1] - 1) |-> PathOf(1, k)]
       /\ \A k \in 1..Len(grouped[1]) :
            PathOf(1, k) /= PathOf(1, gi[1]) =>
              SameFile(files, AppendGroups(before[1], done), PathOf(1, k))

\* C4 witness: the second of two dates failed and the first is on file.
C4_Witness ==
  /\ pc[1] = "raised"
  /\ gi[1] = 2
  /\ PathOf(1, 1) /= PathOf(1, 2)
  /\ PathOf(1, 1) \in DOMAIN files
  /\ PathOf(1, 1) \notin DOMAIN before[1]

\* the first of two dates failed and the second has no file
C4_LaterDateSkipped ==
  /\ pc[1] = "raised"
  /\ gi[1] = 1
  /\ Len(grouped[1]) = 2
  /\ PathOf(1, 2) \notin DOMAIN files

\* a date in ISO form: YYYY-MM-DD, zero-padded
IsIsoDate(fecha) ==
  /\ Len(fecha) = 5
  /\ fecha[2] = DASH /\ fecha[4] = DASH
  /\ fecha[1] \in {"2023", "2024", "2025"}
  /\ fecha[3] \in {"01", "02", "03", "04", "05", "06", "07", "08", "09", "10", "11", "12"}
  /\ fecha[5] \in {"01", "02", "03", "04", "05", "06", "07", "08", "09", "10",
                   "11", "12", "13", "14", "15", "16", "17", "18", "19", "20",
                   "21", "22", "23", "24", "25", "26", "27", "28", "29", "30", "31"}

\* the raw date of the i-th record of caller p's call, and the file the
\* call saved the record to: the one reported for the record's group
FechaOf(p, i) == Get(entries[p][i], "fecha_operacion")
GroupOf(p, i) == CHOOSE k \in 1..Len(grouped[p]) : grouped[p][k].fecha = Strip(FechaOf(p, i))
FileOf(p, i) == saved_files[p][GroupOf(p, i)]

\* C9 as claimed: records of one call go to the same file exactly when
\* their dates are equal, and the call returns one identifier per distinct
\* date, none twice.
C9_DistinctDatesDistinctFiles ==
  pc[1] = "returned" =>
    LET n == Len(entries[1])
    IN /\ \A i, j \in 1..n : (FileOf(1, i) = FileOf(1, j)) <=> (FechaOf(1, i) = FechaOf(1, j))
       /\ Len(saved_files[1]) = Cardinality({FechaOf(1, i) : i \in 1..n})
       /\ \A k, l \in 1..Len(saved_files[1]) : k /= l => saved_files[1][k] /= saved_files[1][l]

\* C9 amended: records whose dates are equal once trimmed go to the same
\* file, records with two distinct ISO dates (YYYY-MM-DD) go to different
\* files, and the call returns one identifier per distinct trimmed date, in
\* the order of first appearance.
C9_IsoDatesDistinctFiles ==
  pc[1] = "returned" =>
    LET n == Len(entries[1])
    IN /\ \A i, j \in 1..n :
            /\ Strip(FechaOf(1, i)) = Strip(FechaOf(1, j)) => FileOf(1, i) = FileOf(1, j)
            /\ ( /\ IsIsoDate(Strip(FechaOf(1, i)))
                 /\ IsIsoDate(Strip(FechaOf(1, j)))
                 /\ Strip(FechaOf(1, i)) /= Strip(FechaOf(1, j)) ) => FileOf(1, i) /= FileOf(1, j)
       /\ Len(saved_files[1]) = Cardinality({Strip(FechaOf(1, i)) : i \in 1..n})

\* C9 witness: one call has saved two records with distinct ISO dates.
C9_Witness ==
  /\ pc[1] = "returned"
  /\ Len(entries[1]) = 2
  /\ IsIsoDate(FechaOf(1, 1)) /\ IsIsoDate(FechaOf(1, 2))
  /\ FechaOf(1, 1) /= FechaOf(1, 2)
  /\ Len(saved_files[1]) = 2

RESERVED_FILE == "DEV_SIN_FECHA.csv"

\* C10 as claimed: a group whose date is blank or is no ISO date is saved to
\* the reserved file, and a group with an ISO date is not.
C10_ReservedSlugWhenUnparsable ==
  pc[1] = "returned" =>
    \A k \in 1..Len(grouped[1]) :
      (saved_files[1][k] = RESERVED_FILE) <=> ~IsIsoDate(grouped[1][k].fecha)

\* C10 amended: a group is saved to the reserved file exactly when its date
\* is empty once trimmed, or reads SIN_FECHA once its dashes are removed; any
\* other date, an ISO date or not, gets the file named after its own text.
C10_ReservedSlugWhenEmpty ==
  pc[1] = "returned" =>
    \A k \in 1..Len(grouped[1]) :
      LET fecha == grouped[1][k].fecha
      IN (saved_files[1][k] = RESERVED_FILE)
           <=> (fecha = <<>> \/ Text(Remove(fecha, DASH)) = "SIN_FECHA")

\* C10 witness: one call has saved a record without a date to the reserved
\* file and a record with an unparsable date to a file of its own.
C10_Witness ==
  /\ pc[1] = "returned"
  /\ Len(grouped[1]) = 2
  /\ \E k \in 1..2 : grouped[1][k].fecha = <<>> /\ saved_files[1][k] = RESERVED_FILE
  /\ \E k \in 1..2 : grouped[1][k].fecha = <<"ayer">> /\ saved_files[1][k] /= RESERVED_FILE

\* every row of caller p's call is a row of the file of its date
AllOnFile(p) ==
  \A k \in 1..Len(grouped[p]) :
    LET on_file == read_rows(files, PathOf(p, k))
    IN \A i \in 1..Len(grouped[p][k].items) :
         \E r \in 1..Len(on_file) : on_file[r] = data_row(grouped[p][k].items[i])

\* no row of caller p's call is a row of the file of its date
NoneOnFile(p) ==
  \A k \in 1..Len(grouped[p]) :
    LET on_file == read_rows(files, PathOf(p, k))
    IN \A i \in 1..Len(grouped[p][k].items) :
         \A r \in 1..Len(on_file) : on_file[r] /= data_row(grouped[p][k].items[i])

\* C3: when two calls have both returned and neither started while the other
\* was running, the files hold the rows of both.
C3_SequentialCallsKeepBoth ==
  ((\A p \in Callers : pc[p] = "returned") /\ ~overlap) => \A p \in Callers : AllOnFile(p)

\* C3 witness (the lost update): two calls for the same date overlapped, both
\* have returned, and the file holds the rows of the second only.
C3_LostUpdate ==
  /\ \A p \in Callers : pc[p] = "returned" /\ Len(grouped[p]) = 1
  /\ grouped[1][1].fecha = grouped[2][1].fecha
  /\ overlap
  /\ NoneOnFile(1)
  /\ AllOnFile(2)

\* C5 as claimed: the amounts of the specification's examples, zero for
\* the empty str and for None, zero for what float() rejects.
C5_AmountsAsSpecified ==
  y /= PENDING =>
    /\ x = <<"1", ".", "2", "3", "4", COMMA, "5", "6">> => FEq(y, Fin(123456, 2))
    /\ x = <<"1", COMMA, "2", "3", "4", ".", "5", "6">> => FEq(y, Fin(123456, 2))
    /\ x = <<"$", SP, "4", "5", "L">> => FEq(y, Fin(45, 0))
    /\ x \in {<<>>, PyNone} => FEq(y, Fin(0, 0))
    /\ x = <<"x", "x", "x">> => FEq(y, Fin(0, 0))

\* C8: ensure_structure applied to its own result gives that result.
C8_EnsureStructureIdempotent == z /= PENDING => z = y

\* C8 witness: a row set shorter than 10 rows whose row 7 had a second cell
\* has been structured twice.
C8_Witness ==
  /\ z /= PENDING
  /\ Len(x) = 8
  /\ Len(x[7]) = 2
  /\ Len(y) = 10
  /\ y /= x

RECURSIVE SumCounts(_)
SumCounts(d) ==
  IF DOMAIN d = {} THEN 0
  ELSE LET l == CHOOSE l \in DOMAIN d : TRUE
       IN d[l].count + SumCounts([m \in DOMAIN d \ {l} |-> d[m]])

RECURSIVE SumAmounts(_)
SumAmounts(d) ==
  IF DOMAIN d = {} THEN Fin(0, 0)
  ELSE LET l == CHOOSE l \in DOMAIN d : TRUE
       IN FAdd(d[l].amount, SumAmounts([m \in DOMAIN d \ {l} |-> d[m]]))

Rollups(r) == {r.by_day, r.by_tienda, r.by_motivo, r.by_medio, r.by_tipo}

\* C6 as claimed: from no ledger files, after the three records of the
\* scenario are saved, the report of 2024-03 counts 3 records, and its store
\* rollup has "A" with count 2 and amount 10500.0 and "(vacío)" with count 1
\* and amount 0.0.
C6_EndToEnd ==
  ( /\ pc[1] = "returned"
    /\ before[1] = <<>>
    /\ entries[1] = <<E2E_1, E2E_2, E2E_3>>
    /\ report /= PENDING
    /\ report.kind = "xlsx"
    /\ report.year = 2024
    /\ report.month = 3 )
  => /\ report.total_count = 3
     /\ DOMAIN report.by_tienda = {<<"A">>, VACIO}
     /\ report.by_tienda[<<"A">>].count = 2
     /\ FEq(report.by_tienda[<<"A">>].amount, Fin(10500, 0))
     /\ report.by_tienda[VACIO].count = 1
     /\ FEq(report.by_tienda[VACIO].amount, Fin(0, 0))

\* C7 as claimed: in each of the five rollups the counts sum to total_count
\* and the amounts sum to total_amount.
C7_RollupsSumToTotals ==
  (report /= PENDING /\ report.kind = "xlsx") =>
    \A d \in Rollups(report) :
      /\ SumCounts(d) = report.total_count
      /\ FEq(SumAmounts(d), report.total_amount)

\* The part of C7 the code keeps: the counts always sum to total_count, and
\* the amounts sum to total_amount unless an amount is NaN.
C7_CountsSumToTotal ==
  (report /= PENDING /\ report.kind = "xlsx") =>
    \A d \in Rollups(report) :
      /\ SumCounts(d) = report.total_count
      /\ report.total_amount.kind = "fin" => FEq(SumAmounts(d), report.total_amount)

\* the rows of the text t, whatever bytes it was decoded from
RowsOfText(t) == csv_reader(Remove(t, BYTE_FF))

\* the record the read contract gives for row r: its first 11 cells under
\* the 11 keys, "" for the cells it lacks
RecordOf(r) ==
  [key \in {COLUMN_KEYS[i] : i \in 1..Len(COLUMN_KEYS)} |->
     LET i == CHOOSE i \in 1..Len(COLUMN_KEYS) : COLUMN_KEYS[i] = key
     IN IF i <= Len(r) THEN r[i] ELSE <<>>]

\* the rows the read contract turns into records: from row 11 on, up to the
\* first marker row or the end, blank lines left out
ContractRows(all) ==
  LET stop == IF \E i \in 11..Len(all) : IsMarkerRow(all[i])
              THEN CHOOSE i \in 11..Len(all) :
                     IsMarkerRow(all[i]) /\ \A j \in 11..(i - 1) : ~IsMarkerRow(all[j])
              ELSE Len(all) + 1
  IN SelectSeq(SubSeq(all, 11, stop - 1), LAMBDA r : r /= <<>>)

\* C11 as claimed: for any file content the call returns one record of 11
\* fields per data row from row 11 up to the first marker row or the end,
\* short rows padded with "", and the empty sequence for an absent file.
C11_ReadContract ==
  y /= PENDING =>
    /\ y.kind = "returned"
    /\ READ_PATH \notin DOMAIN files => y.value = <<>>
    /\ READ_PATH \in DOMAIN files =>
         LET data == ContractRows(RowsOfText(files[READ_PATH]))
         IN y.value = [i \in 1..Len(data) |-> RecordOf(data[i])]

\* The part of C11 the code keeps: a file that decodes as UTF-8 is read as
\* the contract says.
C11_ReadContractOfText ==
  (y /= PENDING /\ ~read_rows_raises(files, READ_PATH)) =>
    /\ y.kind = "returned"
    /\ READ_PATH \notin DOMAIN files => y.value = <<>>
    /\ READ_PATH \in DOMAIN files =>
         LET data == ContractRows(RowsOfText(files[READ_PATH]))
         IN y.value = [i \in 1..Len(data) |-> RecordOf(data[i])]

\* a file of three rows below the header, the second a marker row, has been
\* read as one record
C11_StopsAtMarker ==
  /\ y /= PENDING
  /\ y.kind = "returned"
  /\ READ_PATH \in DOMAIN files
  /\ LET all == RowsOfText(files[READ_PATH])
     IN Len(all) = 13 /\ IsMarkerRow(all[12]) /\ ~IsMarkerRow(all[11]) /\ all[11] /= <<>>
  /\ Len(y.value) = 1

\* a text that is empty or whitespace only
Blank(s) == \A i \in 1..Len(s) : IsSpace(s[i])

\* the records the reports of year and month read from the ledger
Stored(year, month) == entries_of_files(files, _iter_month_csv_files(files, year, month))

Drop(es, i) == SubSeq(es, 1, i - 1) \o SubSeq(es, i + 1, Len(es))

CountIn(d, key) == IF key \in DOMAIN d THEN d[key].count ELSE 0

BothReports ==
  /\ report /= PENDING /\ report.kind = "xlsx"
  /\ z /= PENDING /\ z.kind = "pdf"
  /\ report.year = z.year /\ report.month = z.month

\* C12: of the records the two reports read from the ledger, each gives one
\* row of the tabular detail sheet; one whose two tickets are blank changes
\* nothing in the narrative report (the narrative of the records without it
\* is the same), and one with a ticket counts once in the narrative total,
\* in its day, in its seller, and with its amount in the total amount.
C12_RealTicketsFilter ==
  BothReports =>
    LET es == Stored(z.year, z.month)
    IN /\ report.detail = <<HEADERS>> \o [i \in 1..Len(es) |-> data_row(es[i])]
       /\ \A i \in 1..Len(es) :
            LET e == es[i]
                rest == narrative(Drop(es, i), z.year, z.month)
            IN IF Blank(Get(e, "ticket_devolucion")) /\ Blank(Get(e, "ticket_factura"))
               THEN rest = z
               ELSE /\ z.total_count = rest.total_count + 1
                    /\ FEq(z.total_amount,
                           FAdd(rest.total_amount, _safe_float(Get(e, "monto_devuelto"))))
                    /\ CountIn(z.by_day, DayKey(e)) = CountIn(rest.by_day, DayKey(e)) + 1
                    /\ CountIn(z.by_vendor, Label(e, "vendedor", VACIO))
                         = CountIn(rest.by_vendor, Label(e, "vendedor", VACIO)) + 1
                    /\ \E k \in 1..Len(z.top_vendors) :
                         z.top_vendors[k] = Label(e, "vendedor", VACIO)

\* C12 witness: the two reports of a month were made from a ledger that
\* holds a record with whitespace-only tickets, which would count as
\* refacturación and logistics, and a record with an invoice ticket only.
C12_Witness ==
  /\ BothReports
  /\ LET es == Stored(z.year, z.month)
     IN /\ \E i \in 1..Len(es) :
             /\ Get(es[i], "ticket_devolucion") = <<SP>>
             /\ Get(es[i], "ticket_factura") = <<>>
             /\ IsRefact(es[i]) /\ IsLogistics(es[i])
        /\ \E i \in 1..Len(es) :
             /\ Get(es[i], "ticket_devolucion") = <<>>
             /\ Get(es[i], "ticket_factura") /= <<>>
        /\ Len(report.detail) = Len(es) + 1
        /\ z.total_count = Len(es) - 1
        /\ z.refact_count = 0

\* the response to the request logged at x[i]
ResponseTo(i) == IF x[i].arg = "report_monthly" THEN report ELSE z

\* C13: a report request, tabular or narrative, with a month outside 1..12
\* is answered with the client error without a file access after it (none
\* is listed, tested, opened or written), and the files are as the save left
\* them; a request with a month of 1..12 is not answered with that error.
C13_MonthValidatedFirst ==
  /\ \A i \in 1..Len(x) :
       x[i].op = "request" =>
         IF x[i].month < 1 \/ x[i].month > 12
         THEN /\ ResponseTo(i) = HTTP_400
              /\ i < Len(x) => x[i + 1].op = "request"
         ELSE ResponseTo(i).kind \notin {"HTTPException", "pending"}
  /\ (pc[1] = "returned" /\ x /= <<>>) => files = AppendGroups(before[1], grouped[1])

\* C13 witness: with files of March 2024 in the ledger, a request for month
\* 13 was rejected and a request for month 3 read the files.
C13_Witness ==
  /\ \E i \in 1..Len(x) : x[i] = Request("report_monthly_pdf", 2024, 13)
  /\ z = HTTP_400
  /\ \E i \in 1..Len(x) : x[i] = Request("report_monthly", 2024, 3)
  /\ \E i \in 1..Len(x) : x[i].op = "open r"
  /\ report.kind = "xlsx"

\* the records of the group just written by caller p, as a reader gives
\* them back: the 11 fields, "" for a field the input lacks
NewRecords(p) == [i \in 1..Len(LastGroup(p).items) |-> RecordOf(data_row(LastGroup(p).items[i]))]

\* every file but path is the same in fs1 and fs2
SameOtherFiles(fs1, fs2, path) ==
  \A q \in (DOMAIN fs1 \cup DOMAIN fs2) \ {path} : SameFile(fs1, fs2, q)

\* C14 as claimed: after a date's group is written, reading the date's file
\* gives the records that were readable before it, unchanged and in their
\* order, then the group's records in input order; no other file changes.
C14_AppendOnly ==
  JustWrote(1) =>
    LET path == get_csv_path(LastGroup(1).fecha)
    IN /\ _read_entries_from_csv(files, path)
            = _read_entries_from_csv(pre[1], path) \o NewRecords(1)
       /\ SameOtherFiles(files, pre[1], path)

\* The part of C14 the code keeps: it holds for a group none of whose
\* tickets reads like a marker, written to a file with no marker row among
\* its first ten rows.
C14_AppendOnlyOfPlainTickets ==
  JustWrote(1) =>
    LET path == get_csv_path(LastGroup(1).fecha)
        old == read_rows(pre[1], path)
    IN ( /\ \A i \in 1..10 : i <= Len(old) => ~IsMarkerRow(old[i])
         /\ \A i \in 1..Len(LastGroup(1).items) :
              ~IsTotalDev(Get(LastGroup(1).items[i], "ticket_devolucion")) )
       => /\ _read_entries_from_csv(files, path)
               = _read_entries_from_csv(pre[1], path) \o NewRecords(1)
          /\ SameOtherFiles(files, pre[1], path)

\* a group has been written after records that were readable before it
C14_AppendedToRecords ==
  /\ JustWrote(1)
  /\ LET path == get_csv_path(LastGroup(1).fecha)
     IN /\ Len(_read_entries_from_csv(pre[1], path)) = 2
        /\ Len(_read_entries_from_csv(files, path)) = 4

\* the label ensure_structure leaves in row 7 of the rows old
LabelKept(old) ==
  IF Len(old) >= 7 /\ old[7] /= <<>> /\ old[7][1] /= <<>> THEN old[7][1] ELSE ROW7_LABEL

\* C15 as claimed: whatever the file held before, the file a group was
\* written to has at least 10 rows, the header as row 10, as row 7 the label
\* it had before (the default one if it had none), and the group's rows at
\* row 11 or below.
C15_LayoutKept ==
  JustWrote(1) =>
    LET g == LastGroup(1)
        path == get_csv_path(g.fecha)
        old == read_rows(pre[1], path)
        new == read_rows(files, path)
        n == Len(g.items)
    IN /\ Len(new) >= 10
       /\ new[10] = HEADERS
       /\ new[7] = <<LabelKept(old)>>
       /\ \E k \in 11..(Len(new) - n + 1) : SubSeq(new, k, k + n - 1) = DataRows(g.items)

\* The part of C15 the code keeps: it holds for a file with no marker row
\* among its first ten rows.
C15_LayoutKeptBelowHeader ==
  JustWrote(1) =>
    LET g == LastGroup(1)
        path == get_csv_path(g.fecha)
        old == read_rows(pre[1], path)
        new == read_rows(files, path)
        n == Len(g.items)
    IN (\A i \in 1..10 : i <= Len(old) => ~IsMarkerRow(old[i])) =>
         /\ Len(new) >= 10
         /\ new[10] = HEADERS
         /\ new[7] = <<LabelKept(old)>>
         /\ \E k \in 11..(Len(new) - n + 1) : SubSeq(new, k, k + n - 1) = DataRows(g.items)

\* a group has been written to a file whose row 7 had a label of its own
\* and whose row 10 was not the header
C15_LayoutRepaired ==
  /\ JustWrote(1)
  /\ LET path == get_csv_path(LastGroup(1).fecha)
         old == read_rows(pre[1], path)
         new == read_rows(files, path)
     IN /\ Len(old) >= 10
        /\ old[10] /= HEADERS
        /\ LabelKept(old) /= ROW7_LABEL
        /\ new[10] = HEADERS
        /\ new[7] = <<LabelKept(old)>>

====
